---- MODULE Spec2Model ----
(***************************************************************************)
(* State-machine model of the vexyl portfolio dashboard:                   *)
(*   - the getTimeline server action (per-wallet history fetch, merge,     *)
(*     dedup, trim, cursor) and the infinite query that pages through it;  *)
(*   - the closeAccounts run of useCloseAccounts (simulation fan-out,      *)
(*     batching, sequential signing and sending);                          *)
(*   - the dust list and CLOSE handler of PortfolioView;                   *)
(*   - the persisted wallet store and the connection effect of VexylApp.   *)
(***************************************************************************)
EXTENDS Integers, Sequences, FiniteSets, TLC

\* ------------------------------------------------------------------ bounds
MaxTx == 3          \* transaction signatures known to the provider: 1..MaxTx
MaxWallets == 2     \* wallets of the cluster
MaxLimit == 2       \* page sizes tried: 1..MaxLimit
MaxPages == 2       \* pages loaded by the infinite query
MaxTokens == 7      \* tokens handed to one closeAccounts call: 0..MaxTokens
MaxFanOut == 3      \* tokens of a run whose simulation order is observed: 1..MaxFanOut
MaxMints == 2       \* token accounts the portfolio's owner holds: mints 1..MaxMints
MaxAddresses == 2   \* addresses offered to the wallet store and the adapter: 1..MaxAddresses

\* ------------------------------------------------------- program constants
FETCH_EXTRA == 10           \* "+ 10" of the per-wallet fetch limit
QUERY_RETRY == 2            \* retry: 2 of the query client's default options
MAX_ACCOUNTS_PER_TX == 5    \* accounts closed by one batch transaction
RENT_PER_ACCOUNT == 203928  \* 0.00203928 SOL reclaimed per account, in 1e-8 SOL
DUST_THRESHOLD == 100       \* "value < 1": one dollar, in cents
RANGE_FETCH_LIMIT == 500    \* per-wallet fetch limit of getTimelineByRange
WALLET_COLORS == 8          \* WALLET_COLORS.length

\* An optional value is the empty sequence (undefined) or <<v>>.
Undefined == <<>>
Some(v) == <<v>>
ValueOf(opt) == opt[1]

\* No error message.
NoError == ""

TxIds == 1..MaxTx

Min(a, b) == IF a < b THEN a ELSE b

\* Math.ceil(a / b) for a >= 0, b > 0
CeilDiv(a, b) == (a + b - 1) \div b

VARIABLES
  \* ---- provider side and inputs of the timeline
  wallets,        \* the Wallet[] of the store: sequence of [address, label, color]
  history,        \* provider: address -> set of signatures the address took part in
  blockTime,      \* provider: signature -> timestamp (signatures are numbered in chain order)
  limit,          \* the page size the hook passes
  \* ---- the infinite query (useTimeline) and the getTimeline call in flight
  qStatus,        \* "idle" | "fetching" | "success" | "error"
  attempts,       \* queryFn invocations made for the page being fetched
  pageParam,      \* cursor of the page being fetched
  fetchState,     \* per wallet index: "none" | "pending" | "ok" | "failed" | "malformed"
  timelineResult, \* the TimelineResponse getTimeline resolved with
  pages,          \* pages loaded so far: sequence of [transactions, nextCursor]
  \* ---- useCloseAccounts: hook state and the closeAccounts run in flight
  connected,      \* publicKey && signTransaction are set
  isClosing,      \* useState(false)
  statusMessage,  \* useState(''): which message is shown, "" for none
  closedMints,    \* useState(new Set())
  reclaimedSOL,   \* useState(0), in 1e-8 SOL
  clPc,           \* where the run stands: "idle" | "blockhash" | "simulating" |
                  \* "batchBlockhash" | "signing" | "sending" | "resolved"
  tokens,         \* the tokens argument: sequence of [mint, balance]
  simState,       \* per token index: "pending" | "valid" | "invalid"
  validTokens,    \* simulationResults.filter(r => r.valid), as token indexes
  skippedCount,   \* simulationResults.length - validTokens.length
  batches,        \* sequence of [instructions, mints]
  batchIdx,       \* the loop variable i, 1-based
  batchStatus,    \* per batch: "waiting" | "blockhash" | "signing" | "sending" |
                  \* "sent" | "failed" | "aborted"
  signCount,      \* per batch: signTransaction requests issued
  sendCount,      \* per batch: sendTransaction requests issued
  closedCount,    \* let closedCount
  lastSignature,  \* let lastSignature: optional batch number whose send returned it
  lastError,      \* let lastError: "" for undefined
  allClosedMints, \* const allClosedMints
  closeResult,    \* what the call resolved with
  \* ---- PortfolioView and what it reads
  closedOnChain,  \* chain: mints whose token account a confirmed batch closed
  assets,         \* data of useClusterAssets: optional sequence of [id, value, frozen, balance]
  assetsFetching, \* a fetch of the cluster-assets query is in flight
  assetsResponse, \* what the last getClusterAssets call resolved with
  frozenMints,    \* data of useFrozenMints: optional set of mints
  selectedDust,   \* useState(new Set())
  closeResultShown, \* the closeResult message state is not null
  refetchTimer,   \* the setTimeout(refetch + clearClosedMints, 2000) is pending
  clearResultTimer, \* the setTimeout(setCloseResult(null), 5000) is pending
  pfPc,           \* handleCloseDust: "idle" | "awaiting" (await closeAccounts)
  \* ---- getTimelineByRange
  rangeResult,    \* the TimelineResponse the last getTimelineByRange call resolved with
  \* ---- observation of the Promise.all fan-outs
  orderObserved,  \* whether completion orders are being recorded
  settleOrder,    \* wallet indexes in the order their history requests settled
  simOrder,       \* token indexes in the order their simulations settled
  \* ---- the wallet store (its wallet list is `wallets`) and its persisted copy
  primaryWallet,  \* optional address
  isWarpComplete,
  hoveredTransaction,  \* optional signature
  selectedTransaction, \* optional signature
  selectedTimeRange,   \* optional <<from, to>>
  currentView,    \* "timeline" | "portfolio"
  sidebarCollapsed,
  storage,        \* localStorage item 'vexyl-wallet-storage': optional [wallets, primaryWallet]
  \* ---- VexylApp and the wallet adapter
  adapter,        \* useWallet(): [connected, publicKey], publicKey an optional address
  appState,       \* "landing" | "warping" | "dashboard"
  prevConnected,  \* useRef<boolean | null>(null): optional boolean
  userInitiatedConnect, \* useRef(false)
  effectDeps      \* optional: the [connected, publicKey] the connection effect last ran with

queryVars == <<history, blockTime, limit, qStatus, attempts, pageParam,
               fetchState, timelineResult, pages, rangeResult, settleOrder>>

tlVars == <<wallets, queryVars>>

hookVars == <<connected, isClosing, statusMessage, closedMints, reclaimedSOL>>

runVars == <<clPc, tokens, simState, validTokens, skippedCount, batches, batchIdx,
             batchStatus, signCount, sendCount, closedCount, lastSignature, lastError,
             allClosedMints, closeResult, simOrder>>

clVars == <<hookVars, runVars>>

pfVars == <<assets, assetsFetching, assetsResponse, frozenMints, selectedDust,
            closeResultShown, refetchTimer, clearResultTimer, pfPc>>

uiVars == <<hoveredTransaction, selectedTransaction, selectedTimeRange, currentView,
            sidebarCollapsed>>

appVars == <<adapter, appState, prevConnected, userInitiatedConnect, effectDeps>>

stVars == <<primaryWallet, isWarpComplete, uiVars, storage, appVars, orderObserved>>

vars == <<tlVars, clVars, closedOnChain, pfVars, stVars>>

\* =================================================================== provider

\* The elements of a set of signatures, newest (highest) first.
RECURSIVE NewestFirst(_)
NewestFirst(S) ==
  IF S = {} THEN <<>>
  ELSE LET m == CHOOSE x \in S : \A y \in S : y <= x
       IN <<m>> \o NewestFirst(S \ {m})

\* GET /addresses/{address}/transactions?before=..&limit=..: the address's
\* transactions older than `before`, newest first, at most `lim` of them.
fetchParsedTransactions(address, lim, before) ==
  LET older == IF before = Undefined THEN history[address]
               ELSE {t \in history[address] : t < ValueOf(before)}
      all == NewestFirst(older)
  IN [i \in 1..Min(lim, Len(all)) |->
        [signature |-> all[i], timestamp |-> blockTime[all[i]]]]

\* fetchWalletHistory: a failed request is caught and becomes the empty list.
fetchWalletHistory(address, lim, before, outcome) ==
  IF outcome = "failed" THEN <<>>
  ELSE fetchParsedTransactions(address, lim, before)

\* ===================================================================== merge

HasSignature(map, sig) == \E i \in 1..Len(map) : map[i].signature = sig

\* Mutant of MergeOne: no lookup in the signature map, every transaction is added.
MergeOneNoDedup(map, wallet, tx) ==
  Append(map, [signature |-> tx.signature,
               timestamp |-> tx.timestamp,
               isSelfTransfer |-> HasSignature(map, tx.signature),
               walletLabel |-> wallet.label,
               walletColor |-> wallet.color])

\* One iteration of the inner loop of mergeTransactions.
MergeOne(map, wallet, tx) ==
  IF HasSignature(map, tx.signature)
  THEN [i \in 1..Len(map) |->
          IF map[i].signature = tx.signature
          THEN [map[i] EXCEPT !.isSelfTransfer = TRUE]
          ELSE map[i]]
  ELSE Append(map, [signature |-> tx.signature,
                    timestamp |-> tx.timestamp,
                    isSelfTransfer |-> FALSE,
                    walletLabel |-> wallet.label,
                    walletColor |-> wallet.color])

\* Mutant of MergeWallet: a signature seen again is skipped without being flagged.
RECURSIVE MergeWalletNoFlag(_, _, _)
MergeWalletNoFlag(map, wallet, txs) ==
  IF txs = <<>> THEN map
  ELSE MergeWalletNoFlag(IF HasSignature(map, Head(txs).signature) THEN map
                         ELSE MergeOne(map, wallet, Head(txs)),
                         wallet, Tail(txs))

RECURSIVE MergeWallet(_, _, _)
MergeWallet(map, wallet, txs) ==
  IF txs = <<>> THEN map
  ELSE MergeWallet(MergeOne(map, wallet, Head(txs)), wallet, Tail(txs))

RECURSIVE MergeResults(_, _)
MergeResults(map, results) ==
  IF results = <<>> THEN map
  ELSE MergeResults(MergeWallet(map, Head(results).wallet, Head(results).transactions),
                    Tail(results))

\* Array.prototype.sort is stable: x goes after every element that is not older.
RECURSIVE InsertByTimestamp(_, _)
InsertByTimestamp(sorted, x) ==
  IF sorted = <<>> THEN <<x>>
  ELSE IF Head(sorted).timestamp >= x.timestamp
       THEN <<Head(sorted)>> \o InsertByTimestamp(Tail(sorted), x)
       ELSE <<x>> \o sorted

RECURSIVE SortByTimestampDesc(_)
SortByTimestampDesc(seq) ==
  IF seq = <<>> THEN <<>>
  ELSE InsertByTimestamp(SortByTimestampDesc(SubSeq(seq, 1, Len(seq) - 1)), seq[Len(seq)])

\* Mutant of mergeTransactions: the map's values are returned in insertion order.
mergeTransactionsUnsorted(results) == MergeResults(<<>>, results)

mergeTransactions(results) == SortByTimestampDesc(MergeResults(<<>>, results))

\* =============================================================== getTimeline

FetchLimit(lim, n) == CeilDiv(lim, n) + FETCH_EXTRA

\* Mutant of TimelineResults: entries are pushed as the requests settle.
TimelineResultsByCompletion ==
  [k \in 1..Len(wallets) |->
     LET i == IF k <= Len(settleOrder) THEN settleOrder[k] ELSE k
     IN [wallet |-> wallets[i],
         transactions |-> fetchWalletHistory(wallets[i].address,
                                             FetchLimit(limit, Len(wallets)),
                                             pageParam, fetchState[i])]]

\* The results array of Promise.all: one entry per wallet, in wallet order.
TimelineResults ==
  [i \in 1..Len(wallets) |->
     [wallet |-> wallets[i],
      transactions |-> fetchWalletHistory(wallets[i].address,
                                          FetchLimit(limit, Len(wallets)),
                                          pageParam, fetchState[i])]]

\* Mutant of Trim: slice(0, limit + 1).
TrimOneMore(merged, lim) == SubSeq(merged, 1, Min(lim + 1, Len(merged)))

Trim(merged, lim) == SubSeq(merged, 1, Min(lim, Len(merged)))

NextCursorOf(trimmed) ==
  IF Len(trimmed) > 0 THEN Some(trimmed[Len(trimmed)].signature) ELSE Undefined

\* The value getTimeline resolves with once every per-wallet fetch has settled.
GetTimelineResponse ==
  IF \E i \in 1..Len(wallets) : fetchState[i] = "malformed"
  THEN \* mergeTransactions throws on a response that is no array: the catch block
       [resolved |-> TRUE, success |-> FALSE, data |-> <<>>, nextCursor |-> Undefined,
        error |-> "Failed to fetch timeline"]
  ELSE LET trimmed == Trim(mergeTransactions(TimelineResults), limit)
       IN [resolved |-> TRUE, success |-> TRUE, data |-> trimmed,
           nextCursor |-> NextCursorOf(trimmed), error |-> NoError]

\* ================================================================== actions

\* No getTimeline call has resolved.
NoResponse ==
  [resolved |-> FALSE, success |-> FALSE, data |-> <<>>, nextCursor |-> Undefined,
   error |-> NoError]

WalletOf(i) == [address |-> i, label |-> i, color |-> (i - 1) % 8]

TimeSchemes == { [t \in TxIds |-> t], [t \in TxIds |-> (t + 1) \div 2] }

TimelineInit ==
  /\ \E n \in 1..MaxWallets :
       /\ wallets = [i \in 1..n |-> WalletOf(i)]
       /\ history \in [1..n -> SUBSET TxIds]
       /\ fetchState = [i \in 1..n |-> "none"]
  /\ blockTime \in TimeSchemes
  /\ limit \in 1..MaxLimit
  /\ qStatus = "idle"
  /\ attempts = 0
  /\ pageParam = Undefined
  /\ timelineResult = NoResponse
  /\ pages = <<>>
  /\ rangeResult = NoResponse
  /\ settleOrder = <<>>

\* useInfiniteQuery issues the first page with initialPageParam = undefined.
FetchFirstPage ==
  /\ qStatus = "idle"
  /\ Len(wallets) > 0
  /\ qStatus' = "fetching"
  /\ attempts' = 1
  /\ pageParam' = Undefined
  /\ fetchState' = [i \in 1..Len(wallets) |-> "pending"]
  /\ timelineResult' = NoResponse
  /\ settleOrder' = <<>>
  /\ UNCHANGED <<rangeResult, wallets, history, blockTime, limit, pages, clVars, closedOnChain, pfVars, stVars>>

\* fetchNextPage: getNextPageParam(lastPage) = lastPage.nextCursor.
FetchNextPage ==
  /\ qStatus = "success"
  /\ Len(pages) > 0
  /\ Len(pages) < MaxPages
  /\ pages[Len(pages)].nextCursor # Undefined
  /\ qStatus' = "fetching"
  /\ attempts' = 1
  /\ pageParam' = pages[Len(pages)].nextCursor
  /\ fetchState' = [i \in 1..Len(wallets) |-> "pending"]
  /\ timelineResult' = NoResponse
  /\ settleOrder' = <<>>
  /\ UNCHANGED <<rangeResult, wallets, history, blockTime, limit, pages, clVars, closedOnChain, pfVars, stVars>>

\* One per-wallet request of the Promise.all fan-out settles, in any order.
FetchWalletSettles(i, outcome) ==
  /\ i <= Len(wallets)
  /\ qStatus = "fetching"
  /\ ~timelineResult.resolved
  /\ fetchState[i] = "pending"
  /\ fetchState' = [fetchState EXCEPT ![i] = outcome]
  /\ settleOrder' = IF orderObserved THEN Append(settleOrder, i) ELSE settleOrder
  /\ UNCHANGED <<rangeResult, wallets, history, blockTime, limit, qStatus, attempts, pageParam,
                 timelineResult, pages, clVars, closedOnChain, pfVars, stVars>>

\* Promise.all resolved: merge, trim, return.
GetTimelineReturns ==
  /\ qStatus = "fetching"
  /\ ~timelineResult.resolved
  /\ \A i \in 1..Len(wallets) : fetchState[i] \notin {"none", "pending"}
  /\ timelineResult' = GetTimelineResponse
  /\ UNCHANGED <<settleOrder, rangeResult, wallets, history, blockTime, limit, qStatus, attempts, pageParam,
                 fetchState, pages, clVars, closedOnChain, pfVars, stVars>>

\* Mutant of ShouldRetry: retry: false.
NeverRetry(failureCount) == FALSE

\* The query retries a failed queryFn while failureCount < retry.
ShouldRetry(failureCount) == failureCount < QUERY_RETRY

\* queryFn of useTimeline receives the response: a page, or a throw.
QueryFnSettles ==
  /\ qStatus = "fetching"
  /\ timelineResult.resolved
  /\ IF timelineResult.success
     THEN /\ pages' = Append(pages, [transactions |-> timelineResult.data,
                                     nextCursor |-> timelineResult.nextCursor,
                                     \* not in the page: every request of it succeeded
                                     complete |-> \A i \in 1..Len(wallets) :
                                                    fetchState[i] = "ok"])
          /\ qStatus' = "success"
          /\ UNCHANGED <<attempts, fetchState, timelineResult, settleOrder>>
     ELSE IF ShouldRetry(attempts - 1)
          THEN /\ attempts' = attempts + 1
               /\ fetchState' = [i \in 1..Len(wallets) |-> "pending"]
               /\ timelineResult' = NoResponse
               /\ settleOrder' = <<>>
               /\ UNCHANGED <<qStatus, pages>>
          ELSE /\ qStatus' = "error"
               /\ UNCHANGED <<attempts, fetchState, timelineResult, pages, settleOrder>>
  /\ UNCHANGED <<rangeResult, wallets, history, blockTime, limit, pageParam, clVars, closedOnChain, pfVars, stVars>>

FetchOutcomes == {"ok", "failed", "malformed"}

\* data.pages.flatMap((page) => page.transactions)
RECURSIVE FlatMapTransactions(_)
FlatMapTransactions(pgs) ==
  IF pgs = <<>> THEN <<>>
  ELSE Head(pgs).transactions \o FlatMapTransactions(Tail(pgs))

\* The transactions useTimelineTransactions hands to the view.
useTimelineTransactions == FlatMapTransactions(pages)

TimelineNext ==
  \/ FetchFirstPage
  \/ FetchNextPage
  \/ \E i \in 1..MaxWallets, o \in FetchOutcomes : FetchWalletSettles(i, o)
  \/ GetTimelineReturns
  \/ QueryFnSettles

\* ======================================================== getTimelineByRange

\* merged.filter((tx) => tx.timestamp >= startTime && tx.timestamp <= endTime)
InTimeRange(tx, startTime, endTime) ==
  tx.timestamp >= startTime /\ tx.timestamp <= endTime

RECURSIVE FilterByRange(_, _, _)
FilterByRange(merged, startTime, endTime) ==
  IF merged = <<>> THEN <<>>
  ELSE (IF InTimeRange(Head(merged), startTime, endTime) THEN <<Head(merged)>> ELSE <<>>)
       \o FilterByRange(Tail(merged), startTime, endTime)

\* The results array of getTimelineByRange: no cursor, limit 500 per wallet.
RangeResults(outcomes) ==
  [i \in 1..Len(wallets) |->
     [wallet |-> wallets[i],
      transactions |-> fetchWalletHistory(wallets[i].address, RANGE_FETCH_LIMIT,
                                          Undefined, outcomes[i])]]

\* A whole getTimelineByRange call; outcomes[i] is how wallet i's request ends.
\* The call reads only its arguments and the provider, touches nothing of the
\* query, and so is followed once, issued before the query starts.
getTimelineByRange(startTime, endTime, outcomes) ==
  /\ qStatus = "idle"
  /\ ~rangeResult.resolved
  /\ rangeResult' =
       IF \E i \in 1..Len(wallets) : outcomes[i] = "malformed"
       THEN [resolved |-> TRUE, success |-> FALSE, data |-> <<>>,
             nextCursor |-> Undefined, error |-> "Failed to fetch timeline range"]
       ELSE [resolved |-> TRUE, success |-> TRUE,
             data |-> FilterByRange(mergeTransactions(RangeResults(outcomes)),
                                    startTime, endTime),
             nextCursor |-> Undefined, error |-> NoError]
  /\ UNCHANGED <<wallets, history, blockTime, limit, qStatus, attempts, pageParam,
                 fetchState, timelineResult, pages, settleOrder, clVars, closedOnChain, pfVars, stVars>>

\* Timestamps a range may be asked for.
RangeTimes == 1..MaxTx

RangeNext ==
  \/ FetchFirstPage
  \/ FetchNextPage
  \/ \E i \in 1..MaxWallets, o \in FetchOutcomes : FetchWalletSettles(i, o)
  \/ GetTimelineReturns
  \/ QueryFnSettles
  \/ \E startTime \in RangeTimes, endTime \in RangeTimes :
       \E outcomes \in [1..Len(wallets) -> FetchOutcomes] :
          getTimelineByRange(startTime, endTime, outcomes)

\* ============================================================= closeAccounts

\* The result object of a call that has not resolved.
NoCloseResult ==
  [resolved |-> FALSE, success |-> FALSE, error |-> NoError, closedCount |-> 0,
   skippedCount |-> Undefined, closedMints |-> Undefined, signature |-> Undefined]

\* { success: false, error, closedCount: 0 } with an optional skippedCount.
CloseFailure(message, skipped) ==
  [resolved |-> TRUE, success |-> FALSE, error |-> message, closedCount |-> 0,
   skippedCount |-> skipped, closedMints |-> Undefined, signature |-> Undefined]

\* Server actions of rpc.ts: the RPC call either answers or fails; a failure is
\* caught and returned as { success: false, error }.
getRecentBlockhash(rpcOk) ==
  IF rpcOk THEN [success |-> TRUE, error |-> NoError]
  ELSE [success |-> FALSE, error |-> "Failed to get blockhash"]

\* simErr: the simulation ran and reported value.err.
simulateTransaction(rpcOk, simErr) ==
  IF ~rpcOk THEN [success |-> FALSE, error |-> "Simulation failed"]
  ELSE IF simErr THEN [success |-> FALSE, error |-> "simulation err"]
  ELSE [success |-> TRUE, error |-> NoError]

sendTransaction(rpcOk) ==
  IF rpcOk THEN [success |-> TRUE, error |-> NoError]
  ELSE [success |-> FALSE, error |-> "Failed to send transaction"]

\* The instructions built for one token: a burn when a balance exists, then the close.
InstructionsOf(token) ==
  (IF token.balance > 0 THEN <<[op |-> "burn", mint |-> token.mint]>> ELSE <<>>)
    \o <<[op |-> "close", mint |-> token.mint]>>

RECURSIVE FlatMapInstructions(_, _)
FlatMapInstructions(toks, idxs) ==
  IF idxs = <<>> THEN <<>>
  ELSE InstructionsOf(toks[Head(idxs)]) \o FlatMapInstructions(toks, Tail(idxs))

\* Mutant of FilterValid: nothing is filtered out.
FilterNothing(sim, k) == [j \in 1..(Len(sim) - k + 1) |-> j + k - 1]

\* simulationResults.filter((r) => r.valid), as the indexes of the tokens kept.
RECURSIVE FilterValid(_, _)
FilterValid(sim, k) ==
  IF k > Len(sim) THEN <<>>
  ELSE (IF sim[k] = "valid" THEN <<k>> ELSE <<>>) \o FilterValid(sim, k + 1)

\* Mutant of BuildBatches: slice(i, i + MAX_ACCOUNTS_PER_TX - 1).
RECURSIVE BuildBatchesShortSlice(_, _, _)
BuildBatchesShortSlice(toks, valid, i) ==
  IF i > Len(valid) THEN <<>>
  ELSE LET batchTokens == SubSeq(valid, i, Min(i + MAX_ACCOUNTS_PER_TX - 2, Len(valid)))
       IN <<[instructions |-> FlatMapInstructions(toks, batchTokens),
             mints |-> [k \in 1..Len(batchTokens) |-> toks[batchTokens[k]].mint]]>>
            \o BuildBatchesShortSlice(toks, valid, i + MAX_ACCOUNTS_PER_TX)

\* The batch-building loop: for (i = 0; i < valid.length; i += MAX_ACCOUNTS_PER_TX).
RECURSIVE BuildBatches(_, _, _)
BuildBatches(toks, valid, i) ==
  IF i > Len(valid) THEN <<>>
  ELSE LET batchTokens == SubSeq(valid, i, Min(i + MAX_ACCOUNTS_PER_TX - 1, Len(valid)))
       IN <<[instructions |-> FlatMapInstructions(toks, batchTokens),
             mints |-> [k \in 1..Len(batchTokens) |-> toks[batchTokens[k]].mint]]>>
            \o BuildBatches(toks, valid, i + MAX_ACCOUNTS_PER_TX)

SetOfSeq(seq) == { seq[k] : k \in 1..Len(seq) }

\* Mutant of RunThrows: the outer catch returns without resetting the hook state.
RunThrowsStillClosing(message) ==
  /\ UNCHANGED <<isClosing, statusMessage>>
  /\ closeResult' = CloseFailure(message, Undefined)
  /\ clPc' = "resolved"

\* The catch block of closeAccounts.
RunThrows(message) ==
  /\ isClosing' = FALSE
  /\ statusMessage' = ""
  /\ closeResult' = CloseFailure(message, Undefined)
  /\ clPc' = "resolved"

\* closeAccounts(tokens) up to its first await.
CloseAccountsCall(toks) ==
  /\ clPc \in {"idle", "resolved"}
  /\ tokens' = toks
  /\ simState' = <<>>
  /\ validTokens' = <<>>
  /\ skippedCount' = 0
  /\ batches' = <<>>
  /\ batchIdx' = 0
  /\ batchStatus' = <<>>
  /\ signCount' = <<>>
  /\ sendCount' = <<>>
  /\ closedCount' = 0
  /\ lastSignature' = Undefined
  /\ lastError' = NoError
  /\ allClosedMints' = <<>>
  /\ simOrder' = <<>>
  /\ IF ~connected
     THEN /\ closeResult' = CloseFailure("Wallet not connected", Undefined)
          /\ clPc' = "resolved"
          /\ UNCHANGED <<isClosing, statusMessage>>
     ELSE IF Len(toks) = 0
     THEN /\ closeResult' = CloseFailure("No accounts selected", Undefined)
          /\ clPc' = "resolved"
          /\ UNCHANGED <<isClosing, statusMessage>>
     ELSE /\ isClosing' = TRUE
          /\ statusMessage' = "checking"
          /\ closeResult' = NoCloseResult
          /\ clPc' = "blockhash"
  /\ UNCHANGED <<connected, closedMints, reclaimedSOL, tlVars, stVars>>

\* The blockhash for the simulations arrives; instructions are built and every
\* token's simulation is issued.
FirstBlockhashSettles(rpcOk) ==
  /\ clPc = "blockhash"
  /\ IF ~getRecentBlockhash(rpcOk).success
     THEN /\ RunThrows(getRecentBlockhash(rpcOk).error)
          /\ UNCHANGED <<simState>>
     ELSE /\ statusMessage' = "simulating"
          /\ simState' = [k \in 1..Len(tokens) |-> "pending"]
          /\ clPc' = "simulating"
          /\ UNCHANGED <<isClosing, closeResult>>
  /\ UNCHANGED <<connected, closedMints, reclaimedSOL, tokens, simOrder, validTokens, skippedCount,
                 batches, batchIdx, batchStatus, signCount, sendCount, closedCount,
                 lastSignature, lastError, allClosedMints, closedOnChain, tlVars, stVars, pfVars>>

\* The blockhash arrived but building the instructions throws: new PublicKey(mint)
\* for a mint that is not a valid public key. The outer catch ends the run.
BuildInstructionsThrows ==
  /\ clPc = "blockhash"
  /\ RunThrows("Invalid public key input")
  /\ UNCHANGED <<connected, closedMints, reclaimedSOL, tokens, simOrder, simState, validTokens,
                 skippedCount, batches, batchIdx, batchStatus, signCount, sendCount,
                 closedCount, lastSignature, lastError, allClosedMints, closedOnChain,
                 tlVars, stVars, pfVars>>

\* The simulateTransaction call of token k rejects (the request itself failed):
\* Promise.all rejects at once, the other simulations still in flight, and the
\* outer catch ends the run.
SimulationRejects(k) ==
  /\ clPc = "simulating"
  /\ k \in 1..Len(tokens)
  /\ simState[k] = "pending"
  /\ RunThrows("Failed to fetch")
  /\ UNCHANGED <<connected, closedMints, reclaimedSOL, tokens, simOrder, simState, validTokens,
                 skippedCount, batches, batchIdx, batchStatus, signCount, sendCount,
                 closedCount, lastSignature, lastError, allClosedMints, closedOnChain,
                 tlVars, stVars, pfVars>>

\* One simulation of the fan-out resolves, in any order.
SimulationSettles(k, rpcOk, simErr) ==
  /\ clPc = "simulating"
  /\ k \in 1..Len(tokens)
  /\ simState[k] = "pending"
  /\ simState' = [simState EXCEPT
                    ![k] = IF simulateTransaction(rpcOk, simErr).success
                           THEN "valid" ELSE "invalid"]
  /\ simOrder' = IF orderObserved THEN Append(simOrder, k) ELSE simOrder
  /\ UNCHANGED <<hookVars, clPc, tokens, validTokens, skippedCount, batches, batchIdx,
                 batchStatus, signCount, sendCount, closedCount, lastSignature,
                 lastError, allClosedMints, closeResult, closedOnChain, tlVars, stVars, pfVars>>

\* The successful completion of the run: the return after the batch loop.
RunReturns(count, signature, error, closed) ==
  /\ isClosing' = FALSE
  /\ statusMessage' = ""
  /\ clPc' = "resolved"
  /\ closeResult' =
       IF count > 0
       THEN [resolved |-> TRUE, success |-> TRUE, error |-> NoError,
             closedCount |-> count, skippedCount |-> Some(skippedCount),
             closedMints |-> Some(closed), signature |-> signature]
       ELSE CloseFailure(IF error # NoError THEN error ELSE "Failed to close accounts",
                         Some(skippedCount))

\* The head of the batch loop for index i: past the last batch the run returns,
\* otherwise the batch's blockhash is requested.
LoopHead(i, status, count, signature, error, closed) ==
  /\ batchIdx' = i
  /\ IF i > Len(batches)
     THEN /\ RunReturns(count, signature, error, closed)
          /\ batchStatus' = status
     ELSE /\ statusMessage' = "signing"
          /\ batchStatus' = [status EXCEPT ![i] = "blockhash"]
          /\ clPc' = "batchBlockhash"
          /\ UNCHANGED <<isClosing, closeResult>>

\* Promise.all of the simulations resolved: filter, count, build the batches and
\* enter the batch loop.
SimulationsDone ==
  /\ clPc = "simulating"
  /\ \A k \in 1..Len(tokens) : simState[k] # "pending"
  /\ LET valid == FilterValid(simState, 1)
         skipped == Len(simState) - Len(valid)
         built == BuildBatches(tokens, valid, 1)
     IN /\ validTokens' = valid
        /\ skippedCount' = skipped
        /\ IF Len(valid) = 0
           THEN /\ isClosing' = FALSE
                /\ statusMessage' = ""
                /\ closeResult' = CloseFailure("All accounts are frozen or invalid",
                                               Some(skipped))
                /\ clPc' = "resolved"
                /\ UNCHANGED <<batches, batchIdx, batchStatus, signCount, sendCount>>
           ELSE /\ batches' = built
                /\ signCount' = [b \in 1..Len(built) |-> 0]
                /\ sendCount' = [b \in 1..Len(built) |-> 0]
                /\ batchIdx' = 1
                /\ statusMessage' = "signing"
                /\ batchStatus' = [b \in 1..Len(built) |->
                                     IF b = 1 THEN "blockhash" ELSE "waiting"]
                /\ clPc' = "batchBlockhash"
                /\ UNCHANGED <<isClosing, closeResult>>
  /\ UNCHANGED <<connected, closedMints, reclaimedSOL, tokens, simOrder, simState, closedCount,
                 lastSignature, lastError, allClosedMints, closedOnChain, tlVars, stVars, pfVars>>

\* The fresh blockhash of batch i arrives and the wallet is asked to sign.
BatchBlockhashSettles(rpcOk) ==
  /\ clPc = "batchBlockhash"
  /\ IF ~getRecentBlockhash(rpcOk).success
     THEN /\ RunThrows(getRecentBlockhash(rpcOk).error)
          /\ batchStatus' = [batchStatus EXCEPT ![batchIdx] = "aborted"]
          /\ UNCHANGED <<signCount>>
     ELSE /\ batchStatus' = [batchStatus EXCEPT ![batchIdx] = "signing"]
          /\ signCount' = [signCount EXCEPT ![batchIdx] = @ + 1]
          /\ clPc' = "signing"
          /\ UNCHANGED <<isClosing, statusMessage, closeResult>>
  /\ UNCHANGED <<connected, closedMints, reclaimedSOL, tokens, simOrder, simState, validTokens,
                 skippedCount, batches, batchIdx, sendCount, closedCount, lastSignature,
                 lastError, allClosedMints, closedOnChain, tlVars, stVars, pfVars>>

\* Mutant of SignSettles: no inner try/catch, a rejected signature ends the run.
SignSettlesThrows(signed) ==
  /\ clPc = "signing"
  /\ IF signed
     THEN /\ statusMessage' = "sending"
          /\ sendCount' = [sendCount EXCEPT ![batchIdx] = @ + 1]
          /\ batchStatus' = [batchStatus EXCEPT ![batchIdx] = "sending"]
          /\ clPc' = "sending"
          /\ UNCHANGED <<isClosing, closeResult, batchIdx, lastError>>
     ELSE /\ lastError' = "User rejected the request"
          /\ RunThrows("User rejected the request")
          /\ batchStatus' = [batchStatus EXCEPT ![batchIdx] = "failed"]
          /\ UNCHANGED <<sendCount, batchIdx>>
  /\ UNCHANGED <<connected, closedMints, reclaimedSOL, tokens, simOrder, simState, validTokens,
                 skippedCount, batches, signCount, closedCount, lastSignature,
                 allClosedMints, closedOnChain, tlVars, stVars, pfVars>>

\* Mutant of SignSettles: the send is issued but not awaited.
SignSettlesNoAwait(signed) ==
  /\ clPc = "signing"
  /\ IF signed
     THEN /\ sendCount' = [sendCount EXCEPT ![batchIdx] = @ + 1]
          /\ LoopHead(batchIdx + 1, [batchStatus EXCEPT ![batchIdx] = "sending"],
                      closedCount, lastSignature, lastError, allClosedMints)
          /\ UNCHANGED <<lastError>>
     ELSE /\ lastError' = "User rejected the request"
          /\ LoopHead(batchIdx + 1, [batchStatus EXCEPT ![batchIdx] = "failed"],
                      closedCount, lastSignature, "User rejected the request",
                      allClosedMints)
          /\ UNCHANGED <<sendCount>>
  /\ UNCHANGED <<connected, closedMints, reclaimedSOL, tokens, simOrder, simState, validTokens,
                 skippedCount, batches, signCount, closedCount, lastSignature,
                 allClosedMints, closedOnChain, tlVars, stVars, pfVars>>

\* signTransaction resolves (the send is issued and awaited) or rejects (the
\* inner catch records lastError and the loop goes on).
SignSettles(signed) ==
  /\ clPc = "signing"
  /\ IF signed
     THEN /\ statusMessage' = "sending"
          /\ sendCount' = [sendCount EXCEPT ![batchIdx] = @ + 1]
          /\ batchStatus' = [batchStatus EXCEPT ![batchIdx] = "sending"]
          /\ clPc' = "sending"
          /\ UNCHANGED <<isClosing, closeResult, batchIdx, lastError>>
     ELSE /\ lastError' = "User rejected the request"
          /\ LoopHead(batchIdx + 1, [batchStatus EXCEPT ![batchIdx] = "failed"],
                      closedCount, lastSignature, "User rejected the request",
                      allClosedMints)
          /\ UNCHANGED <<sendCount>>
  /\ UNCHANGED <<connected, closedMints, reclaimedSOL, tokens, simOrder, simState, validTokens,
                 skippedCount, batches, signCount, closedCount, lastSignature,
                 allClosedMints, closedOnChain, tlVars, stVars, pfVars>>

\* Mutant of SendSettles: a failed send puts the same batch up for signing again.
SendSettlesRetry(rpcOk) ==
  /\ clPc = "sending"
  /\ IF sendTransaction(rpcOk).success
     THEN /\ closedCount' = closedCount + Len(batches[batchIdx].mints)
          /\ lastSignature' = Some(batchIdx)
          /\ allClosedMints' = allClosedMints \o batches[batchIdx].mints
          /\ closedMints' = closedMints \cup SetOfSeq(batches[batchIdx].mints)
          /\ closedOnChain' = closedOnChain \cup SetOfSeq(batches[batchIdx].mints)
          /\ reclaimedSOL' = reclaimedSOL + Len(batches[batchIdx].mints) * RENT_PER_ACCOUNT
          /\ LoopHead(batchIdx + 1, [batchStatus EXCEPT ![batchIdx] = "sent"],
                      closedCount + Len(batches[batchIdx].mints), Some(batchIdx),
                      lastError, allClosedMints \o batches[batchIdx].mints)
          /\ UNCHANGED <<lastError>>
     ELSE /\ lastError' = sendTransaction(rpcOk).error
          /\ LoopHead(batchIdx, batchStatus, closedCount, lastSignature,
                      sendTransaction(rpcOk).error, allClosedMints)
          /\ UNCHANGED <<closedCount, lastSignature, allClosedMints, closedMints,
                         reclaimedSOL, closedOnChain>>
  /\ UNCHANGED <<connected, tokens, simOrder, simState, validTokens, skippedCount, batches,
                 signCount, sendCount, tlVars, stVars, pfVars>>

\* sendTransaction of batch i resolves: a success is counted and published to
\* closedMints, a failure is recorded in lastError; the loop goes on with i + 1.
SendSettles(rpcOk) ==
  /\ clPc = "sending"
  /\ IF sendTransaction(rpcOk).success
     THEN /\ closedCount' = closedCount + Len(batches[batchIdx].mints)
          /\ lastSignature' = Some(batchIdx)
          /\ allClosedMints' = allClosedMints \o batches[batchIdx].mints
          /\ closedMints' = closedMints \cup SetOfSeq(batches[batchIdx].mints)
          /\ closedOnChain' = closedOnChain \cup SetOfSeq(batches[batchIdx].mints)
          /\ reclaimedSOL' = reclaimedSOL + Len(batches[batchIdx].mints) * RENT_PER_ACCOUNT
          /\ LoopHead(batchIdx + 1, [batchStatus EXCEPT ![batchIdx] = "sent"],
                      closedCount + Len(batches[batchIdx].mints), Some(batchIdx),
                      lastError, allClosedMints \o batches[batchIdx].mints)
          /\ UNCHANGED <<lastError>>
     ELSE /\ lastError' = sendTransaction(rpcOk).error
          /\ LoopHead(batchIdx + 1, [batchStatus EXCEPT ![batchIdx] = "failed"],
                      closedCount, lastSignature, sendTransaction(rpcOk).error,
                      allClosedMints)
          /\ UNCHANGED <<closedCount, lastSignature, allClosedMints, closedMints,
                         reclaimedSOL, closedOnChain>>
  /\ UNCHANGED <<connected, tokens, simOrder, simState, validTokens, skippedCount, batches,
                 signCount, sendCount, tlVars, stVars, pfVars>>

\* clearClosedMints
ClearClosedMints ==
  /\ closedMints' = {}
  /\ reclaimedSOL' = 0
  /\ UNCHANGED <<connected, isClosing, statusMessage, runVars, closedOnChain, tlVars, stVars>>

\* The hook as first rendered, no run started.
CloseInit ==
  /\ connected \in BOOLEAN
  /\ isClosing = FALSE
  /\ statusMessage = ""
  /\ closedMints = {}
  /\ reclaimedSOL = 0
  /\ clPc = "idle"
  /\ tokens = <<>>
  /\ simState = <<>>
  /\ validTokens = <<>>
  /\ skippedCount = 0
  /\ batches = <<>>
  /\ batchIdx = 0
  /\ batchStatus = <<>>
  /\ signCount = <<>>
  /\ sendCount = <<>>
  /\ closedCount = 0
  /\ lastSignature = Undefined
  /\ lastError = NoError
  /\ allClosedMints = <<>>
  /\ closeResult = NoCloseResult
  /\ simOrder = <<>>

\* A token list of n accounts; odd mints still hold a balance to burn.
TokenList(n) == [k \in 1..n |-> [mint |-> k, balance |-> k % 2]]

\* The hook's consumer calls closeAccounts again only after it has cleared the
\* closed-mints tracking of the run before.
NewRun ==
  /\ closedMints = {}
  /\ \E n \in 0..MaxTokens : CloseAccountsCall(TokenList(n))
  /\ closedOnChain' = {}
  /\ UNCHANGED pfVars

ClearTracking ==
  /\ clPc = "resolved"
  /\ closedMints # {}
  /\ ClearClosedMints
  /\ UNCHANGED pfVars

CloseNext ==
  \/ NewRun
  \/ ClearTracking
  \/ \E ok \in BOOLEAN : FirstBlockhashSettles(ok)
  \/ BuildInstructionsThrows
  \/ \E k \in 1..MaxTokens, ok \in BOOLEAN, err \in BOOLEAN : SimulationSettles(k, ok, err)
  \/ \E k \in 1..MaxTokens : SimulationRejects(k)
  \/ SimulationsDone
  \/ \E ok \in BOOLEAN : BatchBlockhashSettles(ok)
  \/ \E signed \in BOOLEAN : SignSettles(signed)
  \/ \E ok \in BOOLEAN : SendSettles(ok)

\* ============================================================= PortfolioView

Mints == 1..MaxMints

\* total_price of a token in cents: just below and exactly one dollar.
PriceCents == {DUST_THRESHOLD - 1, DUST_THRESHOLD}

\* No getClusterAssets call has resolved.
NoAssetsResponse == [resolved |-> FALSE, success |-> FALSE, error |-> NoError,
                     providerFailed |-> FALSE]

\* tokens.sort((a, b) => bValue - aValue), stable.
RECURSIVE InsertByValue(_, _)
InsertByValue(sorted, x) ==
  IF sorted = <<>> THEN <<x>>
  ELSE IF Head(sorted).value >= x.value
       THEN <<Head(sorted)>> \o InsertByValue(Tail(sorted), x)
       ELSE <<x>> \o sorted

RECURSIVE SortByValueDesc(_)
SortByValueDesc(seq) ==
  IF seq = <<>> THEN <<>>
  ELSE InsertByValue(SortByValueDesc(SubSeq(seq, 1, Len(seq) - 1)), seq[Len(seq)])

RECURSIVE OwnedTokens(_, _, _)
OwnedTokens(m, price, frozen) ==
  IF m > MaxMints THEN <<>>
  ELSE (IF m \in closedOnChain THEN <<>>
        ELSE <<[id |-> m, value |-> price[m], frozen |-> frozen[m], balance |-> m % 2]>>)
       \o OwnedTokens(m + 1, price, frozen)

\* data.tokens of getClusterAssets: a failed DAS call is caught in
\* fetchWalletTokens and becomes an empty item list.
getClusterAssetsTokens(dasOk, price, frozen) ==
  IF dasOk THEN SortByValueDesc(OwnedTokens(1, price, frozen)) ELSE <<>>

FrozenByRpc(id) == IF frozenMints = Undefined THEN FALSE ELSE id \in ValueOf(frozenMints)

\* Mutant of IsDust: "value <= 1" and no frozen check.
IsDustLoose(token) ==
  /\ token.value <= DUST_THRESHOLD
  /\ token.id \notin closedMints

\* The test of the dustAccounts memo.
IsDust(token) ==
  /\ token.value < DUST_THRESHOLD
  /\ ~(FrozenByRpc(token.id) \/ token.frozen)
  /\ token.id \notin closedMints

dustAccounts == IF assets = Undefined THEN <<>> ELSE SelectSeq(ValueOf(assets), IsDust)

DustIds == { dustAccounts[k].id : k \in 1..Len(dustAccounts) }

activeSelectedDust == selectedDust \ closedMints

IsSelected(token) == token.id \in selectedDust

\* tokensToClose of handleCloseDust.
tokensToClose ==
  LET chosen == SelectSeq(dustAccounts, IsSelected)
  IN [k \in 1..Len(chosen) |-> [mint |-> chosen[k].id, balance |-> chosen[k].balance]]

\* The cluster-assets query starts a fetch (first load, or a background refetch).
AssetsFetchStarts ==
  /\ ~assetsFetching
  /\ assetsFetching' = TRUE
  /\ UNCHANGED <<assets, assetsResponse, frozenMints, selectedDust, closeResultShown,
                 refetchTimer, clearResultTimer, pfPc, closedOnChain, clVars, tlVars, stVars>>

\* getClusterAssets resolves. outcome: "ok", "dasFailed" (the DAS request failed)
\* or "badAddress" (ensurePubkey threw: the action's catch block).
AssetsFetchSettles(outcome, price, frozen) ==
  /\ assetsFetching
  /\ assetsFetching' = FALSE
  /\ IF outcome = "badAddress"
     THEN /\ assetsResponse' = [resolved |-> TRUE, success |-> FALSE,
                                error |-> "Failed to fetch cluster assets",
                                providerFailed |-> FALSE]
          /\ UNCHANGED assets
     ELSE /\ assetsResponse' = [resolved |-> TRUE, success |-> TRUE, error |-> NoError,
                                providerFailed |-> (outcome = "dasFailed")]
          /\ assets' = Some(getClusterAssetsTokens(outcome = "ok", price, frozen))
  /\ UNCHANGED <<frozenMints, selectedDust, closeResultShown, refetchTimer,
                 clearResultTimer, pfPc, closedOnChain, clVars, tlVars, stVars>>

\* useFrozenMints resolves with the frozen mints the RPC reported.
FrozenMintsSettle(found) ==
  /\ frozenMints = Undefined
  /\ frozenMints' = Some(found)
  /\ UNCHANGED <<assets, assetsFetching, assetsResponse, selectedDust, closeResultShown,
                 refetchTimer, clearResultTimer, pfPc, closedOnChain, clVars, tlVars, stVars>>

\* handleSelectDust: a click on a listed dust account toggles it.
HandleSelectDust(id) ==
  /\ id \in DustIds
  /\ selectedDust' = IF id \in selectedDust THEN selectedDust \ {id}
                     ELSE selectedDust \cup {id}
  /\ UNCHANGED <<assets, assetsFetching, assetsResponse, frozenMints, closeResultShown,
                 refetchTimer, clearResultTimer, pfPc, closedOnChain, clVars, tlVars, stVars>>

\* handleSelectAllDust
HandleSelectAllDust ==
  /\ Len(dustAccounts) > 0
  /\ selectedDust' = IF Cardinality(activeSelectedDust) = Len(dustAccounts)
                     THEN {} ELSE DustIds
  /\ UNCHANGED <<assets, assetsFetching, assetsResponse, frozenMints, closeResultShown,
                 refetchTimer, clearResultTimer, pfPc, closedOnChain, clVars, tlVars, stVars>>

\* The CLOSE button is rendered and enabled.
CloseButtonEnabled ==
  /\ Len(dustAccounts) > 0
  /\ (Cardinality(activeSelectedDust) > 0 \/ isClosing)
  /\ ~closeResultShown
  /\ ~(isClosing \/ Cardinality(activeSelectedDust) = 0)

\* handleCloseDust up to its await of closeAccounts(tokensToClose).
HandleCloseDust ==
  /\ pfPc = "idle"
  /\ CloseButtonEnabled
  /\ selectedDust # {}
  /\ closeResultShown' = FALSE
  /\ CloseAccountsCall(tokensToClose)
  /\ pfPc' = "awaiting"
  /\ UNCHANGED <<assets, assetsFetching, assetsResponse, frozenMints, selectedDust,
                 refetchTimer, clearResultTimer, closedOnChain>>

\* handleCloseDust after closeAccounts resolved.
HandleCloseDustResumes ==
  /\ pfPc = "awaiting"
  /\ clPc = "resolved"
  /\ pfPc' = "idle"
  /\ closeResultShown' = TRUE
  /\ clearResultTimer' = TRUE
  /\ IF closeResult.success
     THEN /\ selectedDust' = {}
          /\ refetchTimer' = TRUE
     ELSE UNCHANGED <<selectedDust, refetchTimer>>
  /\ UNCHANGED <<assets, assetsFetching, assetsResponse, frozenMints, closedOnChain,
                 clVars, tlVars, stVars>>

\* The 2000 ms timer: refetch(), then clearClosedMints().
RefetchTimerFires ==
  /\ refetchTimer
  /\ refetchTimer' = FALSE
  /\ assetsFetching' = TRUE
  /\ closedMints' = {}
  /\ reclaimedSOL' = 0
  /\ UNCHANGED <<assets, assetsResponse, frozenMints, selectedDust, closeResultShown,
                 clearResultTimer, pfPc, closedOnChain, connected, isClosing,
                 statusMessage, runVars, tlVars, stVars>>

\* The 5000 ms timer, set together with the 2000 ms one and so after it.
ClearResultTimerFires ==
  /\ clearResultTimer
  /\ ~refetchTimer
  /\ clearResultTimer' = FALSE
  /\ closeResultShown' = FALSE
  /\ UNCHANGED <<assets, assetsFetching, assetsResponse, frozenMints, selectedDust,
                 refetchTimer, pfPc, closedOnChain, clVars, tlVars, stVars>>

\* The view as first rendered: nothing loaded, nothing selected.
PortfolioInit ==
  /\ closedOnChain = {}
  /\ assets = Undefined
  /\ assetsFetching = FALSE
  /\ assetsResponse = NoAssetsResponse
  /\ frozenMints = Undefined
  /\ selectedDust = {}
  /\ closeResultShown = FALSE
  /\ refetchTimer = FALSE
  /\ clearResultTimer = FALSE
  /\ pfPc = "idle"

AssetsOutcomes == {"ok", "dasFailed", "badAddress"}

PortfolioNext ==
  \/ AssetsFetchStarts
  \/ \E o \in AssetsOutcomes, price \in [Mints -> PriceCents], frozen \in [Mints -> BOOLEAN] :
        AssetsFetchSettles(o, price, frozen)
  \/ \E found \in SUBSET Mints : FrozenMintsSettle(found)
  \/ \E id \in Mints : HandleSelectDust(id)
  \/ HandleSelectAllDust
  \/ HandleCloseDust
  \/ HandleCloseDustResumes
  \/ RefetchTimerFires
  \/ ClearResultTimerFires
  \/ \E ok \in BOOLEAN : FirstBlockhashSettles(ok)
  \/ \E k \in Mints, ok \in BOOLEAN, err \in BOOLEAN : SimulationSettles(k, ok, err)
  \/ \E k \in Mints : SimulationRejects(k)
  \/ SimulationsDone
  \/ \E ok \in BOOLEAN : BatchBlockhashSettles(ok)
  \/ \E signed \in BOOLEAN : SignSettles(signed)
  \/ \E ok \in BOOLEAN : SendSettles(ok)

\* The timeline left alone: one wallet, nothing fetched.
TimelineQuiet ==
  /\ wallets = <<WalletOf(1)>>
  /\ history = [i \in 1..1 |-> {}]
  /\ fetchState = [i \in 1..1 |-> "none"]
  /\ blockTime = [t \in TxIds |-> t]
  /\ limit = 1
  /\ qStatus = "idle"
  /\ attempts = 0
  /\ pageParam = Undefined
  /\ timelineResult = NoResponse
  /\ pages = <<>>
  /\ rangeResult = NoResponse
  /\ settleOrder = <<>>

\* ============================================================== wallet store

Addresses == 1..MaxAddresses

\* A label argument that is absent or empty (falsy).
NoLabel == 0

\* A label typed by the user; the default label `Wallet n` is the number n.
CustomLabel == 99

Labels == {NoLabel, CustomLabel}

HasAddress(address) == \E i \in 1..Len(wallets) : wallets[i].address = address

\* Mutant of partialize: only the wallet list is written.
partializeWalletsOnly(w, p) == [wallets |-> w, primaryWallet |-> Undefined]

\* partialize of the persist options: what is written to localStorage.
partialize(w, p) == [wallets |-> w, primaryWallet |-> p]

\* The persist middleware: every set() writes the partialized new state.
Persisted == storage' = Some(partialize(wallets', primaryWallet'))

\* Mutant of addWallet: no duplicate check.
addWalletNoCheck(address, label) ==
  /\ wallets' = Append(wallets,
                  [address |-> address,
                   label |-> IF label = NoLabel THEN Len(wallets) + 1 ELSE label,
                   color |-> Len(wallets) % WALLET_COLORS])
  /\ primaryWallet' = IF primaryWallet = Undefined THEN Some(address) ELSE primaryWallet
  /\ Persisted
  /\ UNCHANGED isWarpComplete

\* addWallet of the store: its effect on wallets, primaryWallet and the storage.
addWallet(address, label) ==
  IF HasAddress(address)
  THEN UNCHANGED <<wallets, primaryWallet, isWarpComplete, storage>>
  ELSE /\ wallets' = Append(wallets,
                       [address |-> address,
                        label |-> IF label = NoLabel THEN Len(wallets) + 1 ELSE label,
                        color |-> Len(wallets) % WALLET_COLORS])
       /\ primaryWallet' = IF primaryWallet = Undefined THEN Some(address)
                           ELSE primaryWallet
       /\ Persisted
       /\ UNCHANGED isWarpComplete

\* clearWallets of the store.
clearWallets ==
  /\ wallets' = <<>>
  /\ primaryWallet' = Undefined
  /\ isWarpComplete' = FALSE
  /\ Persisted

\* The connection effect of the last render has run.
EffectSettled == effectDeps = Some(adapter)

\* What a store action leaves alone outside the store.
StoreRest == UNCHANGED <<appVars, queryVars, clVars, closedOnChain, pfVars, orderObserved>>

StoreAddWallet(address, label) ==
  /\ EffectSettled
  /\ addWallet(address, label)
  /\ UNCHANGED uiVars
  /\ StoreRest

removeWallet(address) ==
  /\ EffectSettled
  /\ LET keep(w) == w.address # address
         newWallets == SelectSeq(wallets, keep)
     IN /\ wallets' = newWallets
        /\ primaryWallet' = IF primaryWallet = Some(address)
                            THEN (IF newWallets = <<>> THEN Undefined
                                  ELSE Some(newWallets[1].address))
                            ELSE primaryWallet
        /\ isWarpComplete' = IF Len(newWallets) > 0 THEN isWarpComplete ELSE FALSE
  /\ UNCHANGED uiVars
  /\ Persisted
  /\ StoreRest

updateWalletLabel(address, label) ==
  /\ EffectSettled
  /\ wallets' = [i \in 1..Len(wallets) |->
                   IF wallets[i].address = address
                   THEN [wallets[i] EXCEPT !.label = label] ELSE wallets[i]]
  /\ UNCHANGED <<primaryWallet, isWarpComplete, uiVars>>
  /\ Persisted
  /\ StoreRest

setPrimaryWallet(address) ==
  /\ EffectSettled
  /\ primaryWallet' = Some(address)
  /\ UNCHANGED <<wallets, isWarpComplete, uiVars>>
  /\ Persisted
  /\ StoreRest

StoreClearWallets ==
  /\ EffectSettled
  /\ clearWallets
  /\ UNCHANGED uiVars
  /\ StoreRest

setWarpComplete(complete) ==
  /\ EffectSettled
  /\ isWarpComplete' = complete
  /\ UNCHANGED <<wallets, primaryWallet, uiVars>>
  /\ Persisted
  /\ StoreRest

setHoveredTransaction(tx) ==
  /\ EffectSettled
  /\ hoveredTransaction' = tx
  /\ UNCHANGED <<wallets, primaryWallet, isWarpComplete, selectedTransaction,
                 selectedTimeRange, currentView, sidebarCollapsed>>
  /\ Persisted
  /\ StoreRest

setSelectedTransaction(tx) ==
  /\ EffectSettled
  /\ selectedTransaction' = tx
  /\ UNCHANGED <<wallets, primaryWallet, isWarpComplete, hoveredTransaction,
                 selectedTimeRange, currentView, sidebarCollapsed>>
  /\ Persisted
  /\ StoreRest

setSelectedTimeRange(range) ==
  /\ EffectSettled
  /\ selectedTimeRange' = range
  /\ UNCHANGED <<wallets, primaryWallet, isWarpComplete, hoveredTransaction,
                 selectedTransaction, currentView, sidebarCollapsed>>
  /\ Persisted
  /\ StoreRest

setCurrentView(view) ==
  /\ EffectSettled
  /\ currentView' = view
  /\ UNCHANGED <<wallets, primaryWallet, isWarpComplete, hoveredTransaction,
                 selectedTransaction, selectedTimeRange, sidebarCollapsed>>
  /\ Persisted
  /\ StoreRest

toggleSidebar ==
  /\ EffectSettled
  /\ sidebarCollapsed' = ~sidebarCollapsed
  /\ UNCHANGED <<wallets, primaryWallet, isWarpComplete, hoveredTransaction,
                 selectedTransaction, selectedTimeRange, currentView>>
  /\ Persisted
  /\ StoreRest

\* The UI fields as the store creates them.
UiInitial ==
  /\ hoveredTransaction = Undefined
  /\ selectedTransaction = Undefined
  /\ selectedTimeRange = Undefined
  /\ currentView = "timeline"
  /\ sidebarCollapsed = FALSE

Disconnected == [connected |-> FALSE, publicKey |-> Undefined]

\* A page reload: the store is created with its initial state and the persisted
\* item is merged over it; VexylApp mounts anew and the adapter starts disconnected.
Reload ==
  /\ EffectSettled
  /\ wallets' = IF storage = Undefined THEN <<>> ELSE ValueOf(storage).wallets
  /\ primaryWallet' = IF storage = Undefined THEN Undefined
                      ELSE ValueOf(storage).primaryWallet
  /\ isWarpComplete' = FALSE
  /\ hoveredTransaction' = Undefined
  /\ selectedTransaction' = Undefined
  /\ selectedTimeRange' = Undefined
  /\ currentView' = "timeline"
  /\ sidebarCollapsed' = FALSE
  /\ adapter' = Disconnected
  /\ appState' = "landing"
  /\ prevConnected' = Undefined
  /\ userInitiatedConnect' = FALSE
  /\ effectDeps' = Undefined
  /\ UNCHANGED <<storage, queryVars, clVars, closedOnChain, pfVars, orderObserved>>

\* ================================================================== VexylApp

\* What an adapter event or a VexylApp callback leaves alone.
AppRest ==
  UNCHANGED <<wallets, primaryWallet, isWarpComplete, uiVars, storage, queryVars, clVars,
              closedOnChain, pfVars, orderObserved>>

\* The adapter connects (the user approved, or auto-connect after a page load).
AdapterConnects(key) ==
  /\ EffectSettled
  /\ ~adapter.connected
  /\ adapter' = [connected |-> TRUE, publicKey |-> Some(key)]
  /\ UNCHANGED <<appState, prevConnected, userInitiatedConnect, effectDeps>>
  /\ AppRest

\* The user switches account in the wallet: the public key changes.
AdapterAccountChanges(key) ==
  /\ EffectSettled
  /\ adapter.connected
  /\ adapter.publicKey # Some(key)
  /\ adapter' = [connected |-> TRUE, publicKey |-> Some(key)]
  /\ UNCHANGED <<appState, prevConnected, userInitiatedConnect, effectDeps>>
  /\ AppRest

AdapterDisconnects ==
  /\ EffectSettled
  /\ adapter.connected
  /\ adapter' = Disconnected
  /\ UNCHANGED <<appState, prevConnected, userInitiatedConnect, effectDeps>>
  /\ AppRest

handleLaunch ==
  /\ EffectSettled
  /\ appState = "landing"
  /\ userInitiatedConnect' = TRUE
  /\ UNCHANGED <<adapter, appState, prevConnected, effectDeps>>
  /\ AppRest

handleWarpComplete ==
  /\ EffectSettled
  /\ appState = "warping"
  /\ appState' = "dashboard"
  /\ UNCHANGED <<adapter, prevConnected, userInitiatedConnect, effectDeps>>
  /\ AppRest

\* Mutant of ConnectionEffect: prevConnected.current is never written.
ConnectionEffectNoRef ==
  /\ ~EffectSettled
  /\ effectDeps' = Some(adapter)
  /\ UNCHANGED prevConnected
  /\ IF adapter.connected /\ adapter.publicKey # Undefined
     THEN /\ addWallet(ValueOf(adapter.publicKey), NoLabel)
          /\ IF prevConnected = Undefined \/ prevConnected = Some(FALSE)
             THEN IF userInitiatedConnect
                  THEN userInitiatedConnect' = FALSE /\ appState' = "warping"
                  ELSE appState' = "dashboard" /\ UNCHANGED userInitiatedConnect
             ELSE UNCHANGED <<userInitiatedConnect, appState>>
     ELSE IF ~adapter.connected /\ prevConnected = Some(TRUE)
          THEN /\ clearWallets
               /\ appState' = "landing"
               /\ UNCHANGED userInitiatedConnect
          ELSE UNCHANGED <<wallets, primaryWallet, isWarpComplete, storage,
                           userInitiatedConnect, appState>>
  /\ UNCHANGED <<adapter, uiVars, queryVars, clVars, closedOnChain, pfVars, orderObserved>>

\* The effect on [connected, publicKey]: it runs after the render in which one of
\* them changed, before any later event is handled.
ConnectionEffect ==
  /\ ~EffectSettled
  /\ effectDeps' = Some(adapter)
  /\ prevConnected' = Some(adapter.connected)
  /\ IF adapter.connected /\ adapter.publicKey # Undefined
     THEN /\ addWallet(ValueOf(adapter.publicKey), NoLabel)
          /\ IF prevConnected = Undefined \/ prevConnected = Some(FALSE)
             THEN IF userInitiatedConnect
                  THEN userInitiatedConnect' = FALSE /\ appState' = "warping"
                  ELSE appState' = "dashboard" /\ UNCHANGED userInitiatedConnect
             ELSE UNCHANGED <<userInitiatedConnect, appState>>
     ELSE IF ~adapter.connected /\ prevConnected = Some(TRUE)
          THEN /\ clearWallets
               /\ appState' = "landing"
               /\ UNCHANGED userInitiatedConnect
          ELSE UNCHANGED <<wallets, primaryWallet, isWarpComplete, storage,
                           userInitiatedConnect, appState>>
  /\ UNCHANGED <<adapter, uiVars, queryVars, clVars, closedOnChain, pfVars, orderObserved>>

\* The store and VexylApp as constructed on a first visit: nothing persisted.
StoreInit ==
  /\ wallets = <<>>
  /\ primaryWallet = Undefined
  /\ isWarpComplete = FALSE
  /\ UiInitial
  /\ storage = Undefined
  /\ adapter = Disconnected
  /\ appState = "landing"
  /\ prevConnected = Undefined
  /\ userInitiatedConnect = FALSE
  /\ effectDeps = Undefined

OptionalSignatures == {Undefined, Some(1)}

TimeRanges == {Undefined, Some(<<1, 2>>)}

StoreNext ==
  \/ \E address \in Addresses, label \in Labels : StoreAddWallet(address, label)
  \/ \E address \in Addresses : removeWallet(address)
  \/ \E address \in Addresses, label \in Labels : updateWalletLabel(address, label)
  \/ \E address \in Addresses : setPrimaryWallet(address)
  \/ StoreClearWallets
  \/ \E complete \in BOOLEAN : setWarpComplete(complete)
  \/ \E tx \in OptionalSignatures : setHoveredTransaction(tx)
  \/ \E tx \in OptionalSignatures : setSelectedTransaction(tx)
  \/ \E range \in TimeRanges : setSelectedTimeRange(range)
  \/ \E view \in {"timeline", "portfolio"} : setCurrentView(view)
  \/ toggleSidebar
  \/ Reload
  \/ \E key \in Addresses : AdapterConnects(key)
  \/ \E key \in Addresses : AdapterAccountChanges(key)
  \/ AdapterDisconnects
  \/ handleLaunch
  \/ handleWarpComplete
  \/ ConnectionEffect

\* The store and the app left alone: the first wallet is connected and shown.
StoreQuiet ==
  /\ primaryWallet = Some(wallets[1].address)
  /\ isWarpComplete = TRUE
  /\ hoveredTransaction = Undefined
  /\ selectedTransaction = Undefined
  /\ selectedTimeRange = Undefined
  /\ currentView = "timeline"
  /\ sidebarCollapsed = FALSE
  /\ storage = Some([wallets |-> wallets, primaryWallet |-> primaryWallet])
  /\ adapter = [connected |-> TRUE, publicKey |-> Some(wallets[1].address)]
  /\ appState = "dashboard"
  /\ prevConnected = Some(TRUE)
  /\ userInitiatedConnect = FALSE
  /\ effectDeps = Some(adapter)

Init == TimelineInit /\ CloseInit /\ connected /\ PortfolioInit /\ StoreQuiet /\ orderObserved = FALSE

Next == TimelineNext

Spec == Init /\ [][Next]_vars

InitClose == TimelineQuiet /\ CloseInit /\ PortfolioInit /\ StoreQuiet /\ orderObserved = FALSE

NextClose == CloseNext

SpecClose == InitClose /\ [][NextClose]_vars

InitPortfolio == TimelineQuiet /\ CloseInit /\ PortfolioInit /\ StoreQuiet /\ orderObserved = FALSE

NextPortfolio == PortfolioNext

SpecPortfolio == InitPortfolio /\ [][NextPortfolio]_vars

InitRange == Init

\* Two wallets that share a transaction; the run's completion orders are recorded.
TimelineFanOut ==
  /\ wallets = <<WalletOf(1), WalletOf(2)>>
  /\ history = <<{1, 2}, {2, 3}>>
  /\ fetchState = <<"none", "none">>
  /\ blockTime = [t \in TxIds |-> t]
  /\ limit = MaxLimit
  /\ qStatus = "idle"
  /\ attempts = 0
  /\ pageParam = Undefined
  /\ timelineResult = NoResponse
  /\ pages = <<>>
  /\ rangeResult = NoResponse
  /\ settleOrder = <<>>

\* One closeAccounts run of a connected wallet.
FanOutRun ==
  /\ connected
  /\ clPc = "idle"
  /\ \E n \in 1..MaxFanOut : CloseAccountsCall(TokenList(n))
  /\ UNCHANGED <<closedOnChain, pfVars>>

InitFanOut ==
  /\ orderObserved = TRUE
  /\ CloseInit
  /\ \/ TimelineInit /\ ~connected
     \/ TimelineFanOut /\ connected
  /\ PortfolioInit /\ StoreQuiet

NextFanOut ==
  \/ FetchFirstPage
  \/ FetchNextPage
  \/ \E i \in 1..MaxWallets, o \in FetchOutcomes : FetchWalletSettles(i, o)
  \/ GetTimelineReturns
  \/ QueryFnSettles
  \/ FanOutRun
  \/ \E ok \in BOOLEAN : FirstBlockhashSettles(ok)
  \/ \E k \in 1..MaxFanOut, ok \in BOOLEAN, err \in BOOLEAN : SimulationSettles(k, ok, err)
  \/ SimulationsDone
  \/ \E ok \in BOOLEAN : BatchBlockhashSettles(ok)
  \/ \E signed \in BOOLEAN : SignSettles(signed)
  \/ \E ok \in BOOLEAN : SendSettles(ok)

SpecFanOut == InitFanOut /\ [][NextFanOut]_vars

\* The wallet store, its persistence and VexylApp's connection effect.
InitStore ==
  /\ StoreInit
  /\ history = <<>>
  /\ fetchState = <<>>
  /\ blockTime = [t \in TxIds |-> t]
  /\ limit = 1
  /\ qStatus = "idle"
  /\ attempts = 0
  /\ pageParam = Undefined
  /\ timelineResult = NoResponse
  /\ pages = <<>>
  /\ rangeResult = NoResponse
  /\ settleOrder = <<>>
  /\ CloseInit
  /\ ~connected
  /\ PortfolioInit
  /\ orderObserved = FALSE

NextStore == StoreNext

SpecStore == InitStore /\ [][NextStore]_vars

NextRange == RangeNext

SpecRange == InitRange /\ [][NextRange]_vars

\* ============================================================ timeline claims

\* A getTimeline call has resolved with success = true.
TimelineSucceeded == timelineResult.resolved /\ timelineResult.success

\* The signatures wallet i's fetch returned to the getTimeline call in flight.
FetchedSignatures(i) ==
  { TimelineResults[i].transactions[j].signature :
      j \in 1..Len(TimelineResults[i].transactions) }

WalletsReturning(sig) == { i \in 1..Len(wallets) : sig \in FetchedSignatures(i) }

SignaturesOf(seq) == { seq[k].signature : k \in 1..Len(seq) }

\* C1: the list getTimeline returns holds each transaction signature at most
\* once, also when several wallets' histories hold the same signature.
C1_MergedSignaturesUnique ==
  TimelineSucceeded =>
    \A a, b \in 1..Len(timelineResult.data) :
       a # b => timelineResult.data[a].signature # timelineResult.data[b].signature

\* C1 witness: a returned transaction that two wallets' fetches both returned.
C1_Witness ==
  /\ TimelineSucceeded
  /\ \E k \in 1..Len(timelineResult.data) :
        Cardinality(WalletsReturning(timelineResult.data[k].signature)) >= 2

\* C2: a merged transaction is flagged isSelfTransfer exactly when two or more
\* different wallets' fetched histories returned its signature.
C2_SelfTransferIffSeenTwice ==
  TimelineSucceeded =>
    \A k \in 1..Len(timelineResult.data) :
       timelineResult.data[k].isSelfTransfer
         <=> (Cardinality(WalletsReturning(timelineResult.data[k].signature)) >= 2)

\* C2 witness: one returned list holds a flagged and an unflagged transaction.
C2_Witness ==
  /\ TimelineSucceeded
  /\ \E a, b \in 1..Len(timelineResult.data) :
        /\ timelineResult.data[a].isSelfTransfer
        /\ ~timelineResult.data[b].isSelfTransfer
        /\ Cardinality(WalletsReturning(timelineResult.data[b].signature)) = 1

\* The token of the loaded assets snapshot with the given id is shown as closable
\* dust: worth less than a dollar, frozen by neither source, not tracked as closed.
ShownAsDust(id) ==
  /\ assets # Undefined
  /\ \E j \in 1..Len(ValueOf(assets)) :
       LET token == ValueOf(assets)[j]
       IN /\ token.id = id
          /\ token.value < DUST_THRESHOLD
          /\ ~token.frozen
          /\ (frozenMints = Undefined \/ id \notin ValueOf(frozenMints))
          /\ id \notin closedMints

\* C4: every token the CLOSE click hands to closeAccounts is, in the state of the
\* click, a selected token of the loaded snapshot that is worth less than $1, is
\* frozen neither by the RPC set nor by its ownership flag, and is not in
\* closedMints; so no token worth $1 or more and no frozen token is handed over.
C4_ClosePassesOnlySelectedDust ==
  [][ (pfPc = "idle" /\ pfPc' = "awaiting") =>
        \A k \in 1..Len(tokens') :
          /\ tokens'[k].mint \in selectedDust
          /\ ShownAsDust(tokens'[k].mint) ]_vars

\* C4 witness: a click handed over one token while another selected token of the
\* snapshot, worth a full dollar or frozen, was left out.
C4_Witness ==
  /\ pfPc = "awaiting"
  /\ clPc = "blockhash"
  /\ Len(tokens) = 1
  /\ assets # Undefined
  /\ \E j \in 1..Len(ValueOf(assets)) :
       LET token == ValueOf(assets)[j]
       IN /\ token.id \in selectedDust
          /\ token.id # tokens[1].mint
          /\ (token.value >= DUST_THRESHOLD \/ token.frozen
              \/ (frozenMints # Undefined /\ token.id \in ValueOf(frozenMints)))

\* C8 as stated: when a wallet's history request fails, getTimeline resolves with
\* success = false and an error message.
C8_ProviderFailureSurfaced ==
  (timelineResult.resolved /\ \E i \in 1..Len(wallets) : fetchState[i] = "failed")
    => (~timelineResult.success /\ timelineResult.error # NoError)

\* C9 as stated: a query is attempted once; a failure is reported after that
\* single attempt and the request is never re-issued automatically.
C9_SingleAttempt ==
  /\ attempts <= 1
  /\ (qStatus = "error" => attempts = 1)

\* C9 amended: a failed query is re-issued automatically, at most QUERY_RETRY
\* times; the error is reported only after QUERY_RETRY + 1 failed attempts.
C9_RetriedThenReported ==
  /\ attempts <= QUERY_RETRY + 1
  /\ (qStatus = "error" => attempts = QUERY_RETRY + 1 /\ ~timelineResult.success)

\* C9 witness: the error state, reached after the retries.
C9_Witness ==
  qStatus = "error" /\ timelineResult.resolved /\ attempts = QUERY_RETRY + 1

\* C10: a successful getTimeline returns the first `limit` transactions of the
\* merged newest-first list (all of them when there are fewer), and nextCursor
\* is the last returned signature, undefined exactly when nothing is returned.
C10_TrimAndCursor ==
  TimelineSucceeded =>
    LET merged == mergeTransactions(TimelineResults)
        data == timelineResult.data
    IN /\ Len(data) <= limit
       /\ Len(data) = Min(limit, Len(merged))
       /\ \A k \in 1..Len(data) : data[k] = merged[k]
       /\ (data # <<>> => timelineResult.nextCursor = Some(data[Len(data)].signature))
       /\ (timelineResult.nextCursor = Undefined <=> data = <<>>)

\* C10 witness: the merged list was longer than the limit and was cut to it.
C10_Witness ==
  /\ TimelineSucceeded
  /\ Len(mergeTransactions(TimelineResults)) > limit
  /\ Len(timelineResult.data) = limit
  /\ timelineResult.nextCursor # Undefined

\* ========================================================= closeAccounts claims

\* Every simulation of the run has resolved and the run has gone past Promise.all.
SimulationsResolved ==
  /\ Len(tokens) > 0
  /\ Len(simState) = Len(tokens)
  /\ \A k \in 1..Len(simState) : simState[k] # "pending"
  /\ clPc # "simulating"

ValidIndexes == { k \in 1..Len(simState) : simState[k] = "valid" }

\* The mints a batch carries, by its mints list and by its instructions.
BatchMints(b) ==
  SetOfSeq(batches[b].mints)
    \cup { batches[b].instructions[k].mint : k \in 1..Len(batches[b].instructions) }

\* C3: a token's instructions are in a batch (the only thing signed and sent)
\* only if its own simulation succeeded; a token whose simulation failed is in
\* no batch; skippedCount is the number of input tokens minus the number valid.
C3_OnlySimulatedTokensBatched ==
  SimulationsResolved =>
    /\ \A b \in 1..Len(batches) : \A m \in BatchMints(b) :
         \E k \in ValidIndexes : tokens[k].mint = m
    /\ \A k \in 1..Len(tokens) :
         simState[k] = "invalid" =>
           \A b \in 1..Len(batches) : tokens[k].mint \notin BatchMints(b)
    /\ skippedCount = Len(tokens) - Cardinality(ValidIndexes)
    /\ (closeResult.skippedCount # Undefined =>
          closeResult.skippedCount = Some(Len(tokens) - Cardinality(ValidIndexes)))

\* C3 witness: a run with a valid and an invalid token had a batch sent.
C3_Witness ==
  /\ SimulationsResolved
  /\ \E k \in 1..Len(tokens) : simState[k] = "invalid"
  /\ \E b \in 1..Len(batches) : batchStatus[b] = "sent"
  /\ skippedCount > 0

InFlight(b) == batchStatus[b] \in {"blockhash", "signing", "sending"}

Settled(b) == batchStatus[b] \in {"sent", "failed"}

\* C5: batches are processed strictly one after the other: while a batch waits
\* for its blockhash, its signature or its send, every earlier batch has been
\* sent or has failed and no later batch has been started.
C5_BatchesSequential ==
  \A b \in 1..Len(batchStatus) :
    /\ InFlight(b) =>
         /\ \A a \in 1..Len(batchStatus) : a # b => ~InFlight(a)
         /\ \A a \in 1..(b - 1) : Settled(a)
         /\ \A c \in (b + 1)..Len(batchStatus) : batchStatus[c] = "waiting"
    /\ batchStatus[b] # "waiting" => \A a \in 1..(b - 1) : Settled(a)

\* C5 witness: the second batch awaits its signature after the first was sent.
C5_Witness ==
  /\ Len(batchStatus) >= 2
  /\ batchStatus[1] = "sent"
  /\ batchStatus[2] = "signing"

\* The k-th token, in input order, whose simulation succeeded.
NthValid(n) ==
  CHOOSE k \in ValidIndexes : Cardinality({ j \in ValidIndexes : j <= k }) = n

RECURSIVE ConcatMints(_)
ConcatMints(bs) == IF bs = <<>> THEN <<>> ELSE Head(bs).mints \o ConcatMints(Tail(bs))

\* C6: the valid tokens are cut, in input order, into consecutive batches of at
\* most MAX_ACCOUNTS_PER_TX: each valid token is in exactly one batch, no batch
\* is empty, all but the last are full, and there are ceil(validCount / 5).
C6_BatchesPartitionValidTokens ==
  (SimulationsResolved /\ ValidIndexes # {}) =>
    LET flat == ConcatMints(batches)
        n == Cardinality(ValidIndexes)
    IN /\ Len(flat) = n
       /\ \A p \in 1..n : flat[p] = tokens[NthValid(p)].mint
       /\ \A b \in 1..Len(batches) :
            /\ Len(batches[b].mints) >= 1
            /\ Len(batches[b].mints) <= MAX_ACCOUNTS_PER_TX
            /\ (b < Len(batches) => Len(batches[b].mints) = MAX_ACCOUNTS_PER_TX)
       /\ Len(batches) = CeilDiv(n, MAX_ACCOUNTS_PER_TX)

\* C6 witness: more valid tokens than one batch holds, an invalid one among the
\* first MAX_ACCOUNTS_PER_TX inputs.
C6_Witness ==
  /\ SimulationsResolved
  /\ Cardinality(ValidIndexes) > MAX_ACCOUNTS_PER_TX
  /\ \E k \in 1..MAX_ACCOUNTS_PER_TX : simState[k] = "invalid"
  /\ Len(batches) = 2
  /\ Len(batches[2].mints) < MAX_ACCOUNTS_PER_TX

\* C7: within one run a batch is put up for signing at most once and sent at
\* most once, whatever became of its signing or its send.
C7_BatchSubmittedAtMostOnce ==
  \A b \in 1..Len(batchStatus) :
    /\ signCount[b] <= 1
    /\ sendCount[b] <= signCount[b]
    /\ (batchStatus[b] \in {"waiting", "blockhash", "aborted"} => signCount[b] = 0)
    /\ (batchStatus[b] \in {"signing", "sending", "sent", "failed"} => signCount[b] = 1)
    /\ (batchStatus[b] \in {"sending", "sent"} => sendCount[b] = 1)

\* C7 witness: the run resolved with a batch whose send had failed and one whose
\* signing had been rejected, neither submitted again.
C7_Witness ==
  /\ clPc = "resolved"
  /\ \E a, b \in 1..Len(batchStatus) :
       /\ batchStatus[a] = "failed" /\ sendCount[a] = 1
       /\ batchStatus[b] = "failed" /\ sendCount[b] = 0 /\ signCount[b] = 1

\* A list of transactions is in timestamp-descending order.
NewestFirstOrder(data) ==
  \A k \in 1..(Len(data) - 1) : data[k].timestamp >= data[k + 1].timestamp

\* C11: the list one getTimeline call or one getTimelineByRange call returns is
\* ordered by timestamp descending: of two adjacent transactions the earlier
\* one's timestamp is greater than or equal to the later one's.
C11_ReturnedNewestFirst ==
  /\ TimelineSucceeded => NewestFirstOrder(timelineResult.data)
  /\ (rangeResult.resolved /\ rangeResult.success) => NewestFirstOrder(rangeResult.data)

\* C11 witness: both calls returned two transactions of different timestamps, the
\* newer one fetched for the second wallet, so that the sort reordered them.
C11_Witness ==
  /\ TimelineSucceeded
  /\ Len(timelineResult.data) >= 2
  /\ timelineResult.data[1].timestamp > timelineResult.data[2].timestamp
  /\ timelineResult.data[1].walletLabel = 2
  /\ timelineResult.data[2].walletLabel = 1
  /\ rangeResult.resolved /\ rangeResult.success
  /\ Len(rangeResult.data) >= 2
  /\ rangeResult.data[1].timestamp > rangeResult.data[2].timestamp
  /\ rangeResult.data[1].walletLabel = 2

\* The per-wallet results of the getTimeline call in flight, in wallet order.
ResultsInWalletOrder ==
  [i \in 1..Len(wallets) |->
     [wallet |-> wallets[i],
      transactions |-> fetchWalletHistory(wallets[i].address,
                                          FetchLimit(limit, Len(wallets)),
                                          pageParam, fetchState[i])]]

\* The indexes of the tokens whose simulation passed, in input order.
RECURSIVE ValidInInputOrder(_)
ValidInInputOrder(k) ==
  IF k > Len(simState) THEN <<>>
  ELSE (IF simState[k] = "valid" THEN <<k>> ELSE <<>>) \o ValidInInputOrder(k + 1)

\* The batch loop has been entered.
BatchesBuilt == clPc \in {"batchBlockhash", "signing", "sending", "resolved"} /\ batches # <<>>

\* C12: the fan-outs need no ordering. Whatever order the per-wallet requests
\* settled in, getTimeline's list (transactions, order, walletLabel/walletColor,
\* isSelfTransfer) is the one computed from the per-wallet responses taken in
\* wallet order; whatever order the simulations settled in, the batches are the
\* ones built from the passing tokens taken in input order.
C12_FanOutOrderIrrelevant ==
  /\ (orderObserved /\ TimelineSucceeded) =>
        timelineResult.data = Trim(mergeTransactions(ResultsInWalletOrder), limit)
  /\ (orderObserved /\ BatchesBuilt) =>
        /\ validTokens = ValidInInputOrder(1)
        /\ batches = BuildBatches(tokens, ValidInInputOrder(1), 1)

\* C12 witness: the second wallet's request settled first and both wallets'
\* transactions were merged; a later token's simulation settled before an
\* earlier one's and both are in the batch.
C12_Witness ==
  /\ orderObserved
  /\ settleOrder = <<2, 1>>
  /\ TimelineSucceeded
  /\ \E a, b \in 1..Len(timelineResult.data) :
        /\ timelineResult.data[a].walletLabel = 1
        /\ timelineResult.data[b].walletLabel = 2
        /\ timelineResult.data[a].isSelfTransfer
  /\ BatchesBuilt
  /\ Len(simOrder) >= 2
  /\ simOrder[1] > simOrder[2]
  /\ simState[simOrder[1]] = "valid"
  /\ simState[simOrder[2]] = "valid"

\* Every page has been loaded: the last one came without a cursor.
AllPagesLoaded ==
  /\ qStatus = "success"
  /\ Len(pages) >= 1
  /\ pages[Len(pages)].nextCursor = Undefined

\* No request of any loaded page failed.
AllRequestsSucceeded == \A p \in 1..Len(pages) : pages[p].complete

\* C16 as stated: once pages have been loaded until nextCursor is undefined, with
\* every request answered, every transaction of every wallet's history is in
\* some page.
C16_PaginationSkipsNothing ==
  (AllPagesLoaded /\ AllRequestsSucceeded) =>
     \A i \in 1..Len(wallets) : history[i] \subseteq SignaturesOf(useTimelineTransactions)

\* C17 as stated: the flattened list of all loaded pages holds no signature twice.
C17_FlattenedSignaturesUnique ==
  \A a, b \in 1..Len(useTimelineTransactions) :
     a # b => useTimelineTransactions[a].signature # useTimelineTransactions[b].signature

\* The mints of the batches sent successfully, from batch b on, in batch order.
RECURSIVE SentMintsFrom(_)
SentMintsFrom(b) ==
  IF b > Len(batches) THEN <<>>
  ELSE (IF batchStatus[b] = "sent" THEN batches[b].mints ELSE <<>>) \o SentMintsFrom(b + 1)

\* The closedMints field of a result, empty when the field is absent.
ResultClosedMints ==
  IF closeResult.closedMints = Undefined THEN <<>> ELSE ValueOf(closeResult.closedMints)

\* C18 as stated: the result of a run reports it faithfully: closedCount is the
\* number of mints in the batches sent successfully, closedMints lists exactly
\* those mints, and success is true exactly when a batch was sent successfully.
C18_ResultFaithful ==
  (clPc = "resolved" /\ closeResult.resolved) =>
     /\ closeResult.closedCount = Len(SentMintsFrom(1))
     /\ ResultClosedMints = SentMintsFrom(1)
     /\ (closeResult.success <=> SentMintsFrom(1) # <<>>)

\* The batch in hand fails in this step: its signature is rejected or its send fails.
BatchFails ==
  /\ clPc \in {"signing", "sending"}
  /\ batchStatus[batchIdx] \in {"signing", "sending"}
  /\ batchStatus'[batchIdx] = "failed"

\* C19: a batch whose signing is rejected or whose send fails does not abort the
\* run. The failure is recorded as lastError and nothing already counted is lost;
\* if a later batch exists, its blockhash is requested next so that it is offered
\* for signing, otherwise the run returns with what the sent batches closed.
C19_FailedBatchDoesNotAbort ==
  [][ BatchFails =>
        /\ lastError' # NoError
        /\ closedCount' = closedCount
        /\ allClosedMints' = allClosedMints
        /\ closedMints' = closedMints
        /\ batchIdx' = batchIdx + 1
        /\ IF batchIdx < Len(batches)
           THEN /\ clPc' = "batchBlockhash"
                /\ batchStatus'[batchIdx + 1] = "blockhash"
                /\ isClosing'
                /\ ~closeResult'.resolved
           ELSE /\ clPc' = "resolved"
                /\ closeResult'.closedCount = closedCount
                /\ closeResult'.success = (closedCount > 0)
                /\ (closedCount > 0 => closeResult'.closedMints = Some(allClosedMints)) ]_vars

\* C19 witness: the first batch's signature was rejected, the second batch was
\* still signed and sent, and the run reports the second batch's mints as closed.
C19_Witness ==
  /\ clPc = "resolved"
  /\ Len(batchStatus) = 2
  /\ batchStatus[1] = "failed" /\ sendCount[1] = 0
  /\ batchStatus[2] = "sent"
  /\ lastError # NoError
  /\ closeResult.success
  /\ closeResult.closedCount = Len(batches[2].mints)

\* C20 as stated: a mint closed successfully is never shown again in the dust
\* list, in particular not between clearClosedMints and the arrival of the
\* refetched assets.
C20_ClosedMintNeverListedAgain ==
  \A id \in closedOnChain : id \notin DustIds

NoDuplicateAddresses ==
  \A i, j \in 1..Len(wallets) : i # j => wallets[i].address # wallets[j].address

\* This step is the connection effect running for the adapter's current state.
EffectRuns ==
  /\ effectDeps # Some(adapter)
  /\ effectDeps' = Some(adapter)
  /\ adapter' = adapter

\* C13: after any sequence of wallet-store actions no two wallets of the store
\* share an address, and addWallet of an address already present (called directly
\* or by the connection effect) leaves the whole store state unchanged.
C13_AddressesUnique ==
  /\ []NoDuplicateAddresses
  /\ [][ /\ \A address \in Addresses, label \in Labels :
               (HasAddress(address) /\ StoreAddWallet(address, label)) =>
                  UNCHANGED <<wallets, primaryWallet, isWarpComplete, uiVars, storage>>
         /\ (EffectRuns /\ adapter.connected /\ HasAddress(ValueOf(adapter.publicKey))) =>
               UNCHANGED <<wallets, primaryWallet, isWarpComplete, uiVars, storage>> ]_vars

\* C13 witness: both addresses are in the store, the second one relabelled, and the
\* adapter's key, already present, has been through the connection effect.
C13_Witness ==
  /\ Len(wallets) = MaxAddresses
  /\ wallets[2].label = CustomLabel
  /\ adapter.connected
  /\ adapter.publicKey = Some(wallets[2].address)
  /\ EffectSettled
  /\ primaryWallet = Some(wallets[1].address)

\* C14: when the connection effect runs with the adapter connected with a public
\* key, that key's address is in the store afterwards; when it runs after the
\* adapter went from connected to disconnected, the store is cleared (no wallets,
\* no primary wallet, isWarpComplete false) and the app state becomes 'landing'.
C14_StoreFollowsAdapter ==
  [][ EffectRuns =>
        /\ (adapter.connected /\ adapter.publicKey # Undefined) =>
              \E i \in 1..Len(wallets') : wallets'[i].address = ValueOf(adapter.publicKey)
        /\ (effectDeps # Undefined /\ ValueOf(effectDeps).connected /\ ~adapter.connected) =>
              /\ wallets' = <<>>
              /\ primaryWallet' = Undefined
              /\ ~isWarpComplete'
              /\ appState' = "landing" ]_vars

\* C14 witness: the adapter connected with key 2 after the user pressed connect;
\* the effect has run: it added the key's address to the empty store, which made
\* it the primary wallet, and started the warp transition.
C14_Witness ==
  /\ adapter = [connected |-> TRUE, publicKey |-> Some(2)]
  /\ EffectSettled
  /\ prevConnected = Some(TRUE)
  /\ appState = "warping"
  /\ ~userInitiatedConnect
  /\ wallets = <<[address |-> 2, label |-> 1, color |-> 0]>>
  /\ primaryWallet = Some(2)
  /\ storage = Some(partialize(wallets, primaryWallet))

\* This step is a page reload.
ReloadStep == effectDeps # Undefined /\ effectDeps' = Undefined

\* C15: only wallets and primaryWallet are persisted; across a page reload
\* wallets and primaryWallet keep their values and every UI field is back at its
\* initial value.
C15_ReloadKeepsWalletsOnly ==
  /\ [](storage # Undefined => DOMAIN ValueOf(storage) = {"wallets", "primaryWallet"})
  /\ [][ ReloadStep =>
           /\ wallets' = wallets
           /\ primaryWallet' = primaryWallet
           /\ isWarpComplete' = FALSE
           /\ hoveredTransaction' = Undefined
           /\ selectedTransaction' = Undefined
           /\ selectedTimeRange' = Undefined
           /\ currentView' = "timeline"
           /\ sidebarCollapsed' = FALSE ]_vars

\* C15 witness: just after a reload, with two wallets and a primary wallet restored.
C15_Witness ==
  /\ effectDeps = Undefined
  /\ Len(wallets) = 2
  /\ primaryWallet = Some(wallets[2].address)
  /\ storage = Some(partialize(wallets, primaryWallet))
  /\ UiInitial
  /\ ~isWarpComplete

\* A run of closeAccounts is under way: started and not yet resolved.
RunInProgress == clPc \notin {"idle", "resolved"}

\* C21: whenever a closeAccounts call has resolved, by whatever path, isClosing
\* is false and statusMessage is empty; isClosing is true only while a run is
\* under way.
C21_NotClosingOnceResolved ==
  /\ (clPc = "resolved" => closeResult.resolved /\ ~isClosing /\ statusMessage = "")
  /\ (isClosing => RunInProgress)

\* C21 witness: a run of two tokens was ended by a rejected simulation request
\* while the other simulation was still in flight, and the hook is idle again.
C21_Witness ==
  /\ clPc = "resolved"
  /\ closeResult.resolved
  /\ closeResult.error = "Failed to fetch"
  /\ Len(tokens) = 2
  /\ \A k \in 1..2 : simState[k] = "pending"
  /\ ~isClosing
  /\ statusMessage = ""

====
